---- MODULE Spec2Model ----
(***************************************************************************)
(* The reactive image viewer of rx-image-viewer (src/index.ts and its      *)
(* refactored variant with utils/): the category stream, the action        *)
(* stream, the combineLatest + scan reducer, the preload pipeline and the  *)
(* DOM writes of the taps, as one state machine.                           *)
(*                                                                         *)
(* Time is abstract: a timer (the first-value timeout of an attempt, the   *)
(* artificial loading delay, the aggregate timeout) is an action that may  *)
(* fire whenever it is armed; which of two armed timers fires first is the *)
(* race the code leaves to Math.random().                                  *)
(***************************************************************************)
EXTENDS Integers, Sequences, FiniteSets, TLC

VARIABLES
    variant,            \* which of the two builds runs: "finite" (src/index.ts) or "unbounded" (index.ts + utils/)
    selectValue,        \* categorySelectElement.value
    catPhase,           \* per subscription of categoryChange$: "fetching" | "idle" | "closed"
    catSoFar,           \* per subscription: retry's count of failures of the current request
    staleFetches,       \* identifiers whose fetch() is in flight for a subscriber that switchMap has unsubscribed
    cache,              \* sessionStorage: identifier -> stored list, or NoEntry
    latestAction,       \* combineLatest's latest value of userActionCode$ ("none" before the first)
    latestCategory,     \* combineLatest's latest value of categoryChange$ (Absent before the first)
    state,              \* the scan accumulator
    preload,            \* the inner subscription of the second switchMap
    staleTimers,        \* setTimeout callbacks of abandoned attempts that have not run yet
    counterText,        \* counterElement.innerText
    loadingVisibility,  \* loadingImageElement.style.visibility
    imgSrc,             \* currentImageElement.src
    imgAlt,             \* currentImageElement.alt
    pipelineError,      \* "none", or why currentImageChange$ has errored
    navSinceChange,     \* history: a Next/Previous was emitted since the last selector change
    lastEvent           \* history: the keyup or click event that the last step dispatched (NoEvent: none)

vars == <<variant, selectValue, catPhase, catSoFar, staleFetches, cache, latestAction,
          latestCategory, state, preload, staleTimers, counterText, loadingVisibility,
          imgSrc, imgAlt, pipelineError, navSinceChange, lastEvent>>

(***************************************************************************)
(* Bounds of the model                                                     *)
(***************************************************************************)
\* the longest category of the server has MaxImages locators
MaxImages == 3
\* the unbounded retries are followed for at most MaxRetries failures per request
MaxRetries == 1
\* at most MaxStaleTimers callbacks of abandoned attempts are pending at once
MaxStaleTimers == 1
\* the fetches of at most MaxStaleFetches abandoned identifiers are in flight at once
MaxStaleFetches == 1

(***************************************************************************)
(* Program constants                                                       *)
(***************************************************************************)
START_INDEX == 0
CATEGORY_RETRY_COUNT == 3
PRELOAD_RETRY_COUNT == 2

UserActionNext == "next"
UserActionPrevious == "previous"
UserActionChangeCategory == "changeCategory"
UserAction == {UserActionNext, UserActionPrevious, UserActionChangeCategory}
\* combineLatest has no value of userActionCode$ yet
NoAction == "none"

\* the arrow keys that a stream of userActionCode$ filters for
KeyCodesLeft == "ArrowLeft"
KeyCodesRight == "ArrowRight"
KeyCodes == {KeyCodesLeft, KeyCodesRight}

\* the elements an event is dispatched at: the selector, the two buttons,
\* and the body for every other element of the document
categorySelectElement == "category"
nextButtonElement == "next"
backButtonElement == "back"
Targets == {categorySelectElement, "body"}

KeyUpEvent(code, target) == <<"keyup", code, target>>
ClickEvent(element) == <<"click", element>>
NoEvent == <<>>

\* the two subscriptions of the cold categoryChange$: the one inside
\* userActionCode$ and the one combineLatest makes itself
ActionBranch == "userActionCode$"
CategoryBranch == "combineLatest"
Subscriptions == {ActionBranch, CategoryBranch}

Variants == {"finite", "unbounded"}

\* a locator is a pair <<text, n>>; the fixed ones have n = 0
FALLBACK_IMAGE_URL == <<"/images/error.png", 0>>
Blank == <<"", 0>>
Undefined == <<"undefined", 0>>


(***************************************************************************)
(* The server: what GET /categories/<name>.json answers                    *)
(***************************************************************************)
Categories == {"cats", "dogs", "empty"}

ServerImageUrls(categoryName) ==
    IF categoryName = "cats" THEN [i \in 1..MaxImages |-> <<categoryName, i>>]
    ELSE IF categoryName = "dogs" THEN [i \in 1..(MaxImages - 1) |-> <<categoryName, i>>]
    ELSE <<>>

(***************************************************************************)
(* Values                                                                  *)
(***************************************************************************)
\* the categoryData of the scan seed, and combineLatest's missing category
Absent == [name |-> "undefined", imageUrls |-> <<>>]

CategoryData(categoryName, imageUrls) == [name |-> categoryName, imageUrls |-> imageUrls]

\* sessionStorage.getItem of a key never set
NoEntry == <<Undefined>>

Min(a, b) == IF a < b THEN a ELSE b
Max(a, b) == IF a > b THEN a ELSE b

\* imageUrls[index] of a JavaScript array (0-based, undefined out of range)
ImageUrlAt(imageUrls, index) ==
    IF index + 1 \in DOMAIN imageUrls THEN imageUrls[index + 1] ELSE Undefined

(***************************************************************************)
(* The scan reducer of currentImageChange$                                 *)
(***************************************************************************)
\* getNewBoundedIndex without its Math.min
getNewIndexBoundedBelow(oldIndex, actionCode, newCategory) ==
    LET delta == IF actionCode = UserActionNext THEN 1 ELSE -1
    IN  Max(oldIndex + delta, START_INDEX)

getNewBoundedIndex(oldIndex, actionCode, newCategory) ==
    LET delta == IF actionCode = UserActionNext THEN 1 ELSE -1
        newIndex == oldIndex + delta
    IN  Min(Max(newIndex, START_INDEX), Len(newCategory.imageUrls) - 1)

\* newIndex without the ChangeCategory case
newIndexWithoutReset(oldIndex, actionCode, newCategory) ==
    getNewBoundedIndex(oldIndex, actionCode, newCategory)

\* new index, if it is 0 then this means go to initial index
newIndexOf(oldIndex, actionCode, newCategory) ==
    IF actionCode = UserActionChangeCategory
    THEN START_INDEX
    ELSE getNewBoundedIndex(oldIndex, actionCode, newCategory)

\* the seed { index: START_INDEX }: its other fields are undefined and never read
\* but for categoryData?.name
SeedState ==
    [index |-> START_INDEX, categoryData |-> Absent,
     indexChanged |-> FALSE, categoryChanged |-> FALSE]

\* the reducer with indexChanged taken from the action, not from the indexes
reducerIndexChangedByAction(currentAccumulatedState, actionCode, newCategory) ==
    LET oldIndex == currentAccumulatedState.index
        oldCategoryData == currentAccumulatedState.categoryData
        newIndex == newIndexOf(oldIndex, actionCode, newCategory)
    IN  [index |-> newIndex,
         categoryData |-> newCategory,
         indexChanged |-> actionCode # UserActionChangeCategory,
         categoryChanged |-> oldCategoryData.name # newCategory.name]

reducer(currentAccumulatedState, actionCode, newCategory) ==
    LET oldIndex == currentAccumulatedState.index
        oldCategoryData == currentAccumulatedState.categoryData
        newIndex == newIndexOf(oldIndex, actionCode, newCategory)
    IN  [index |-> newIndex,
         categoryData |-> newCategory,
         indexChanged |-> oldIndex # newIndex,
         categoryChanged |-> oldCategoryData.name # newCategory.name]

\* the pipeline without its filter
passesEverything(viewState) == TRUE

\* filter out events that don't change anything
changesAnything(viewState) == viewState.indexChanged \/ viewState.categoryChanged

(***************************************************************************)
(* The preload of the second switchMap                                     *)
(***************************************************************************)
\* no inner subscription yet
NoPreload ==
    [phase |-> "none", index |-> START_INDEX, categoryData |-> Absent,
     url |-> Undefined, soFar |-> 0, droppedPending |-> FALSE]

\* preloadImageUrlOrFallback(categoryData.imageUrls[index]) just subscribed:
\* the first attempt is running
NewPreload(viewState) ==
    [phase |-> "loading", index |-> viewState.index, categoryData |-> viewState.categoryData,
     url |-> ImageUrlAt(viewState.categoryData.imageUrls, viewState.index), soFar |-> 0,
     droppedPending |-> FALSE]

\* an attempt is running: waiting for the image's load or error event
\* ("loading") or for the artificial delay after the load event ("delay")
Pending(p) == p.phase \in {"loading", "delay"}

\* the setTimeout callbacks left behind when the running attempt is
\* unsubscribed: the unsubscriber detaches the handlers, not the timer
TimersAfterUnsubscribe(p) == IF p.phase = "delay" THEN staleTimers + 1 ELSE staleTimers

\* exhaustMap in the place of switchMap: a value that arrives while the
\* inner subscription is running is dropped
exhaustMapPreload(current, new) == IF Pending(current) THEN current ELSE new

\* switchMap: the inner subscription of the previous value is unsubscribed
\* and the new one takes its place (droppedPending: the one unsubscribed was
\* still running)
switchMapPreload(current, new) == [new EXCEPT !.droppedPending = Pending(current)]

(***************************************************************************)
(* The stages of currentImageChange$ downstream of combineLatest           *)
(***************************************************************************)
dom == <<counterText, loadingVisibility, imgSrc, imgAlt>>

alive == pipelineError = "none"

\* the loading tap, then the switchMap to the preload of the accepted state
Accept(viewState) ==
    /\ counterText' = <<viewState.index, Len(viewState.categoryData.imageUrls) - 1>>
    /\ loadingVisibility' = "visible"
    /\ imgSrc' = Blank
    /\ imgAlt' = imgAlt
    /\ preload' = switchMapPreload(preload, NewPreload(viewState))
    /\ staleTimers' = TimersAfterUnsubscribe(preload)

\* combineLatest keeps the latest value of each source and emits the pair
\* once both have one; scan reduces it and filter drops the no-ops
CombineLatest(actionCode, categoryData) ==
    /\ latestAction' = actionCode
    /\ latestCategory' = categoryData
    /\ IF actionCode # NoAction /\ categoryData # Absent
       THEN LET newState == reducer(state, actionCode, categoryData)
            IN  /\ state' = newState
                /\ IF changesAnything(newState)
                   THEN Accept(newState)
                   ELSE UNCHANGED <<dom, preload, staleTimers>>
       ELSE UNCHANGED <<state, dom, preload, staleTimers>>

\* the apply tap
Apply(currentImageUrl) ==
    /\ imgSrc' = currentImageUrl
    /\ imgAlt' = <<preload.categoryData.name, preload.index>>
    /\ loadingVisibility' = "hidden"
    /\ counterText' = counterText

\* the pipeline without its catchError: the error goes to the subscriber and
\* the image stays as the loading tap or the apply tap left it
PipelineErrorWithoutFallback(reason) ==
    /\ imgSrc' = imgSrc
    /\ pipelineError' = reason
    /\ catPhase' = [s \in Subscriptions |-> "closed"]
    /\ preload' = [preload EXCEPT !.phase = IF Pending(preload) THEN "unsubscribed" ELSE @]
    /\ staleTimers' = TimersAfterUnsubscribe(preload)
    /\ UNCHANGED <<counterText, loadingVisibility, imgAlt, state, latestAction, latestCategory>>

\* an error reaches the catchError of currentImageChange$: the fallback is
\* set, the error is rethrown to the subscriber and every subscription of
\* the pipeline is torn down
PipelineError(reason) ==
    /\ imgSrc' = FALLBACK_IMAGE_URL
    /\ pipelineError' = reason
    /\ catPhase' = [s \in Subscriptions |-> "closed"]
    /\ preload' = [preload EXCEPT !.phase = IF Pending(preload) THEN "unsubscribed" ELSE @]
    /\ staleTimers' = TimersAfterUnsubscribe(preload)
    /\ UNCHANGED <<counterText, loadingVisibility, imgAlt, state, latestAction, latestCategory>>

\* a request is in flight: its fetch() is not aborted when its subscriber
\* is unsubscribed
FetchInFlight == \E s \in Subscriptions : catPhase[s] = "fetching"

(***************************************************************************)
(* categoryChange$                                                         *)
(***************************************************************************)
\* retry with one resubscription less
categoryRetryResubscribesOnceLess(soFar) ==
    IF variant = "finite" THEN soFar < CATEGORY_RETRY_COUNT - 1 ELSE TRUE

\* retry(3) of src/index.ts, retry(Infinity) of the variant: resubscribe
\* while soFar++ < count
categoryRetryResubscribes(soFar) ==
    IF variant = "finite" THEN soFar < CATEGORY_RETRY_COUNT ELSE TRUE

\* the map after retry: src/index.ts throws on an empty list, the variant has no such check
emptyListThrows(imageUrls) ==
    IF variant = "finite" THEN Len(imageUrls) = 0 ELSE FALSE

\* the change event of the selector: each of the two switchMaps unsubscribes
\* its request and subscribes to getCategoryImageUrlsWithPotentialErrors(newCategory);
\* the fetch() of an unsubscribed request stays in flight
SelectCategory(newCategory) ==
    /\ alive
    /\ newCategory # selectValue
    /\ FetchInFlight => Cardinality(staleFetches \cup {selectValue}) <= MaxStaleFetches
    /\ selectValue' = newCategory
    /\ catPhase' = [s \in Subscriptions |-> "fetching"]
    /\ catSoFar' = [s \in Subscriptions |-> 0]
    /\ staleFetches' = IF FetchInFlight THEN staleFetches \cup {selectValue} ELSE staleFetches
    /\ navSinceChange' = FALSE
    /\ lastEvent' = NoEvent
    /\ UNCHANGED <<variant, cache, latestAction, latestCategory, state, preload, staleTimers,
                   dom, pipelineError>>

\* the fetch() of an unsubscribed request settles as if it were subscribed
\* (mergeMap in the place of switchMap): its list is emitted
StaleFetchSettlesSubscribed(categoryName, answers) ==
    /\ categoryName \in staleFetches
    /\ staleFetches' = staleFetches \ {categoryName}
    /\ IF answers
       THEN /\ cache' = [cache EXCEPT ![categoryName] = ServerImageUrls(categoryName)]
            /\ CombineLatest(latestAction, CategoryData(categoryName, ServerImageUrls(categoryName)))
       ELSE UNCHANGED <<cache, latestAction, latestCategory, state, preload, staleTimers, dom>>
    /\ lastEvent' = NoEvent
    /\ UNCHANGED <<variant, selectValue, catPhase, catSoFar, pipelineError, navSinceChange>>

\* the fetch() of an unsubscribed request settles: its then() writes the
\* cache, and subscriber.next or subscriber.error on the closed subscriber
\* does nothing
StaleFetchSettles(categoryName, answers) ==
    /\ categoryName \in staleFetches
    /\ staleFetches' = staleFetches \ {categoryName}
    /\ cache' = IF answers
                THEN [cache EXCEPT ![categoryName] = ServerImageUrls(categoryName)]
                ELSE cache
    /\ lastEvent' = NoEvent
    /\ UNCHANGED <<variant, selectValue, catPhase, catSoFar, latestAction, latestCategory,
                   state, preload, staleTimers, dom, pipelineError, navSinceChange>>

\* an attempt fails: the artificial error, or the fetch or its parse rejects
CategoryFetchFails(s) ==
    /\ alive
    /\ catPhase[s] = "fetching"
    /\ IF variant = "finite" THEN TRUE ELSE catSoFar[s] < MaxRetries
    /\ catSoFar' = [catSoFar EXCEPT ![s] = @ + 1]
    /\ IF categoryRetryResubscribes(catSoFar[s])
       THEN UNCHANGED <<catPhase, latestAction, latestCategory, state, preload,
                        staleTimers, dom, pipelineError>>
       ELSE PipelineError("getCategoryImageUrls error")
    /\ lastEvent' = NoEvent
    /\ UNCHANGED <<variant, staleFetches, selectValue, cache, navSinceChange>>

\* the fetch answers: the list is cached and emitted
CategoryFetchSucceeds(s) ==
    /\ alive
    /\ catPhase[s] = "fetching"
    /\ LET imageUrls == ServerImageUrls(selectValue)
       IN  /\ cache' = [cache EXCEPT ![selectValue] = imageUrls]
           /\ IF emptyListThrows(imageUrls)
              THEN PipelineError("No image urls loaded")
              ELSE /\ catPhase' = [catPhase EXCEPT ![s] = "idle"]
                   /\ IF s = ActionBranch
                      THEN CombineLatest(UserActionChangeCategory, latestCategory)
                      ELSE CombineLatest(latestAction, CategoryData(selectValue, imageUrls))
                   /\ UNCHANGED pipelineError
    /\ lastEvent' = NoEvent
    /\ UNCHANGED <<variant, staleFetches, selectValue, catSoFar, navSinceChange>>

(***************************************************************************)
(* userActionCode$                                                         *)
(***************************************************************************)
\* userActionCode$ emits Previous or Next
userActionCodeEmits(actionCode) ==
    /\ CombineLatest(actionCode, latestCategory)
    /\ navSinceChange' = TRUE
    /\ UNCHANGED <<variant, staleFetches, selectValue, catPhase, catSoFar, cache, pipelineError>>

\* a click on a button, or an arrow key released outside the selector
Navigate(actionCode) ==
    /\ alive
    /\ actionCode \in {UserActionNext, UserActionPrevious}
    /\ userActionCodeEmits(actionCode)
    /\ lastEvent' = NoEvent

\* generalKeyEvent$ without its filter
generalKeyEventUnfiltered(target) == TRUE

\* generalKeyEvent$: the keyup events of the document whose target is not the selector
generalKeyEvent(target) == target # categorySelectElement

\* rightArrowPress$ and leftArrowPress$, mapped as userActionCode$ maps them
\* (NoAction: the event passes no filter)
userActionOfKeyUp(code, target) ==
    IF ~generalKeyEvent(target) THEN NoAction
    ELSE IF code = KeyCodesRight THEN UserActionNext
    ELSE IF code = KeyCodesLeft THEN UserActionPrevious
    ELSE NoAction

\* nextClick$ and backClick$, mapped as userActionCode$ maps them
userActionOfClick(element) ==
    IF element = nextButtonElement THEN UserActionNext ELSE UserActionPrevious

\* a key is released while target has the focus
KeyUp(code, target) ==
    /\ alive
    /\ lastEvent' = KeyUpEvent(code, target)
    /\ IF userActionOfKeyUp(code, target) = NoAction
       THEN UNCHANGED <<variant, staleFetches, selectValue, catPhase, catSoFar, cache,
                        latestAction, latestCategory, state, preload, staleTimers, dom,
                        pipelineError, navSinceChange>>
       ELSE userActionCodeEmits(userActionOfKeyUp(code, target))

\* the previous or the next button is clicked
Click(element) ==
    /\ alive
    /\ lastEvent' = ClickEvent(element)
    /\ userActionCodeEmits(userActionOfClick(element))

(***************************************************************************)
(* preloadImageUrlOrFallback and loadImageElementUrlWithPossibleErrors     *)
(***************************************************************************)
\* retry with one resubscription more
preloadRetryResubscribesOnceMore(soFar) ==
    IF variant = "finite" THEN soFar <= PRELOAD_RETRY_COUNT ELSE TRUE

\* retry(2) of src/index.ts, retry(Infinity) of the variant
preloadRetryResubscribes(soFar) ==
    IF variant = "finite" THEN soFar < PRELOAD_RETRY_COUNT ELSE TRUE

\* the failure of the last attempt without the catchError of
\* preloadImageUrlOrFallback: it reaches the catchError of the pipeline
AttemptFailedUncaught ==
    /\ IF preloadRetryResubscribes(preload.soFar)
       THEN /\ preload' = [preload EXCEPT !.phase = "loading", !.soFar = @ + 1]
            /\ staleTimers' = TimersAfterUnsubscribe(preload)
            /\ UNCHANGED <<dom, catPhase, latestAction, latestCategory, state, pipelineError>>
       ELSE PipelineError("preload error")
    /\ lastEvent' = NoEvent
    /\ UNCHANGED <<variant, staleFetches, selectValue, catSoFar, cache, navSinceChange>>

\* the attempt errored (a timeout is an error of the attempt): retry
\* resubscribes, or catchError emits the fallback, which the apply tap shows
AttemptFailed ==
    /\ IF variant = "finite" THEN TRUE ELSE preload.soFar < MaxRetries
    /\ staleTimers' = TimersAfterUnsubscribe(preload)
    /\ IF preloadRetryResubscribes(preload.soFar)
       THEN /\ preload' = [preload EXCEPT !.phase = "loading", !.soFar = @ + 1]
            /\ UNCHANGED dom
       ELSE /\ preload' = [preload EXCEPT !.phase = "fallback", !.soFar = @ + 1]
            /\ Apply(FALLBACK_IMAGE_URL)
    /\ lastEvent' = NoEvent
    /\ UNCHANGED <<variant, staleFetches, selectValue, catPhase, catSoFar, cache, latestAction,
                   latestCategory, state, pipelineError, navSinceChange>>

\* the artificial error at subscription, or the error event of the image
PreloadError ==
    /\ alive
    /\ preload.phase = "loading"
    /\ AttemptFailed

\* timeout({ first: LOADING_TIMEOUT_MS }): no value since the attempt began
PreloadTimeout ==
    /\ alive
    /\ Pending(preload)
    /\ AttemptFailed

\* the load event of the image: onload schedules observer.next(url)
ImageLoaded ==
    /\ alive
    /\ preload.phase = "loading"
    /\ staleTimers < MaxStaleTimers
    /\ preload' = [preload EXCEPT !.phase = "delay"]
    /\ lastEvent' = NoEvent
    /\ UNCHANGED <<variant, staleFetches, selectValue, catPhase, catSoFar, cache, latestAction,
                   latestCategory, state, staleTimers, dom, pipelineError, navSinceChange>>

\* the artificial delay ends before the timeout: the url is emitted and the
\* apply tap shows it
DelayElapsed ==
    /\ alive
    /\ preload.phase = "delay"
    /\ preload' = [preload EXCEPT !.phase = "loaded"]
    /\ Apply(preload.url)
    /\ lastEvent' = NoEvent
    /\ UNCHANGED <<variant, staleFetches, selectValue, catPhase, catSoFar, cache, latestAction,
                   latestCategory, state, staleTimers, pipelineError, navSinceChange>>

\* timeout({ first: IMAGE_LOADING_TIMEOUT_MS * 3 }) after retry(Infinity), in
\* the variant only: the retries are unsubscribed and catchError emits the fallback
AggregateTimeout ==
    /\ alive
    /\ variant = "unbounded"
    /\ Pending(preload)
    /\ preload' = [preload EXCEPT !.phase = "fallback"]
    /\ staleTimers' = TimersAfterUnsubscribe(preload)
    /\ Apply(FALLBACK_IMAGE_URL)
    /\ lastEvent' = NoEvent
    /\ UNCHANGED <<variant, staleFetches, selectValue, catPhase, catSoFar, cache, latestAction,
                   latestCategory, state, pipelineError, navSinceChange>>

\* the setTimeout callback of an abandoned attempt runs as if its observer
\* were the subscriber of the running attempt: the url is emitted
StaleTimerFiresOnOpenSubscriber ==
    /\ staleTimers > 0
    /\ staleTimers' = staleTimers - 1
    /\ IF alive /\ Pending(preload)
       THEN /\ preload' = [preload EXCEPT !.phase = "loaded"]
            /\ Apply(preload.url)
       ELSE UNCHANGED <<preload, dom>>
    /\ lastEvent' = NoEvent
    /\ UNCHANGED <<variant, staleFetches, selectValue, catPhase, catSoFar, cache, latestAction,
                   latestCategory, state, pipelineError, navSinceChange>>

\* the setTimeout callback of an abandoned attempt runs: observer.next on a
\* closed subscriber does nothing
StaleTimerFires ==
    /\ staleTimers > 0
    /\ staleTimers' = staleTimers - 1
    /\ lastEvent' = NoEvent
    /\ UNCHANGED <<variant, staleFetches, selectValue, catPhase, catSoFar, cache, latestAction,
                   latestCategory, state, preload, dom, pipelineError, navSinceChange>>

(***************************************************************************)
(* The specification                                                       *)
(***************************************************************************)
\* currentImageChange$.subscribe(): both subscriptions of categoryChange$
\* have requested the selector's value
Subscribed ==
    /\ selectValue \in Categories
    /\ catPhase = [s \in Subscriptions |-> "fetching"]
    /\ catSoFar = [s \in Subscriptions |-> 0]
    /\ staleFetches = {}
    /\ cache = [c \in Categories |-> NoEntry]
    /\ latestAction = NoAction
    /\ latestCategory = Absent
    /\ state = SeedState
    /\ preload = NoPreload
    /\ staleTimers = 0
    /\ counterText = <<>>
    /\ loadingVisibility = ""
    /\ imgSrc = Blank
    /\ imgAlt = <<>>
    /\ pipelineError = "none"
    /\ navSinceChange = FALSE
    /\ lastEvent = NoEvent

Next ==
    \/ \E c \in Categories : SelectCategory(c)
    \/ \E c \in Categories, answers \in BOOLEAN : StaleFetchSettles(c, answers)
    \/ \E s \in Subscriptions : CategoryFetchFails(s)
    \/ \E s \in Subscriptions : CategoryFetchSucceeds(s)
    \/ \E a \in {UserActionNext, UserActionPrevious} : Navigate(a)
    \/ PreloadError
    \/ PreloadTimeout
    \/ ImageLoaded
    \/ DelayElapsed
    \/ StaleTimerFires

\* the build of src/index.ts
Init == variant = "finite" /\ Subscribed

Spec == Init /\ [][Next]_vars

\* the build of the variant: index.ts with utils/
InitVariant == variant = "unbounded" /\ Subscribed

NextVariant == Next \/ AggregateTimeout

SpecVariant == InitVariant /\ [][NextVariant]_vars

\* either build browsing the category it started with, with the DOM events
\* of the keys and the buttons as its inputs, in the place of what the click
\* and arrow streams emit
InitEvents == variant \in Variants /\ Subscribed

NextEvents ==
    \/ \E s \in Subscriptions : CategoryFetchFails(s)
    \/ \E s \in Subscriptions : CategoryFetchSucceeds(s)
    \/ \E code \in KeyCodes, target \in Targets : KeyUp(code, target)
    \/ \E element \in {nextButtonElement, backButtonElement} : Click(element)
    \/ PreloadError
    \/ PreloadTimeout
    \/ ImageLoaded
    \/ DelayElapsed
    \/ AggregateTimeout
    \/ StaleTimerFires

SpecEvents == InitEvents /\ [][NextEvents]_vars

(***************************************************************************)
(* Steps, as seen from the two states of a step                            *)
(***************************************************************************)
\* the apply tap ran: the running preload emitted the url or the fallback
PresenterUpdate == Pending(preload) /\ preload'.phase \in {"loaded", "fallback"}

\* scan reduced a pair to a state that the filter drops
NoOpTransition ==
    /\ latestAction' # NoAction
    /\ latestCategory' # Absent
    /\ <<latestAction, latestCategory, state>>' # <<latestAction, latestCategory, state>>
    /\ ~state'.indexChanged
    /\ ~state'.categoryChanged

\* the running attempt of the preload failed or timed out
PreloadAttemptFailed ==
    /\ Pending(preload)
    /\ preload'.soFar = preload.soFar + 1

\* an attempt of the request of subscription s failed
CategoryAttemptFailed(s) ==
    /\ catPhase[s] = "fetching"
    /\ catSoFar'[s] = catSoFar[s] + 1

\* the request of subscription s was answered and its value emitted
CategoryAnswered(s) ==
    /\ catPhase[s] = "fetching"
    /\ catPhase'[s] = "idle"

(***************************************************************************)
(* The claims                                                              *)
(***************************************************************************)

\* C1: every state the reducer produces for a non-empty category has
\* 0 <= index <= len(category.imageUrls) - 1, the category being the one of
\* that same state, also when it is a new and shorter one.
C1_IndexWithinCategory ==
    Len(state.categoryData.imageUrls) > 0
        => /\ 0 <= state.index
           /\ state.index <= Len(state.categoryData.imageUrls) - 1

\* Next, reduced with the shorter category that has just arrived, from the
\* last index of the longer one (whose image was on display): the index is
\* cut down to the last index of the shorter category
C1_Witness ==
    /\ latestAction = UserActionNext
    /\ state.categoryChanged
    /\ state.indexChanged
    /\ state.categoryData.name = "dogs"
    /\ state.index = Len(ServerImageUrls("dogs")) - 1
    /\ imgAlt = <<"cats", Len(ServerImageUrls("cats")) - 1>>
    /\ ~preload.droppedPending

\* C2: a new accepted state cancels the pending preload of the earlier one:
\* the preload in flight is always that of the newest accepted state, and
\* every Presenter update carries the index and the category of the newest
\* accepted state and shows its locator or the fallback.
C2_LatestStateWins ==
    /\ [](preload.phase \in {"loading", "delay", "loaded", "fallback"}
            => /\ preload.index = state.index
               /\ preload.categoryData.name = state.categoryData.name)
    /\ [][PresenterUpdate
            => /\ imgAlt' = <<state'.categoryData.name, state'.index>>
               /\ imgSrc' \in {ImageUrlAt(state'.categoryData.imageUrls, state'.index),
                                FALLBACK_IMAGE_URL}]_vars

\* the image of a state that was accepted while the preload of an earlier
\* state was still running has been presented
C2_Witness ==
    /\ preload.droppedPending
    /\ preload.phase = "loaded"
    /\ imgSrc = preload.url
    /\ imgAlt = <<state.categoryData.name, state.index>>

\* C4: a transition with indexChanged = false and categoryChanged = false has
\* no effect downstream: no preload is started, cancelled or restarted, and
\* the counter, the image, its alt text and the loading indicator stay.
C4_NoOpHasNoEffect ==
    [][NoOpTransition
        => UNCHANGED <<counterText, loadingVisibility, imgSrc, imgAlt, preload, staleTimers>>]_vars

\* Next at the last index, reduced while the preload of that index is running
C4_Witness ==
    /\ latestAction = UserActionNext
    /\ latestCategory # Absent
    /\ ~state.indexChanged
    /\ ~state.categoryChanged
    /\ state.index = Len(state.categoryData.imageUrls) - 1
    /\ Pending(preload)
    /\ loadingVisibility = "visible"

\* C5: every transition whose action is ChangeCategory produces index 0.
\* (Once combineLatest has both values, every change of either is reduced at
\* once: the state is always the reduction of the latest pair.)
C5_ChangeCategoryResetsIndex ==
    latestAction = UserActionChangeCategory => state.index = 0

\* ChangeCategory came while the index was not 0
C5_Witness ==
    /\ latestAction = UserActionChangeCategory
    /\ latestCategory # Absent
    /\ state.indexChanged
    /\ state.index = 0

\* C3: the resolution of an accepted state that is not superseded always
\* ends with one result for the Presenter, the locator or the fallback: a
\* running resolution goes on, delivers, or gives way to the resolution of a
\* newer accepted state, and is never dropped without a result.
C3_ResolutionAlwaysDelivers ==
    [][Pending(preload) => preload'.phase \in {"loading", "delay", "loaded", "fallback"}]_vars

\* C6: after a change of the selector to another category than the one on
\* display, and no other input, the next Presenter update for the selected
\* category is for index 0 and shows its first locator or the fallback; none
\* shows another index of it.
C6_SelectorChangeShowsFirstImage ==
    [][(/\ PresenterUpdate
        /\ ~navSinceChange
        /\ imgAlt # <<>>
        /\ imgAlt[1] # selectValue
        /\ preload.categoryData.name = selectValue)
        => /\ imgAlt' = <<selectValue, 0>>
           /\ imgSrc' \in {ImageUrlAt(ServerImageUrls(selectValue), 0), FALLBACK_IMAGE_URL}]_vars

\* C7: with retry(3), a failed attempt is followed by a new request of the
\* same identifier while fewer than 3 retries were made; the request that
\* succeeds after two failures emits, and the 4th failure in a row is the
\* terminal error, with no category emitted.
C7_FiniteCategoryRetry ==
    /\ [](/\ CATEGORY_RETRY_COUNT = 3
          /\ \A s \in Subscriptions :
                catPhase[s] = "fetching" => catSoFar[s] <= CATEGORY_RETRY_COUNT
          /\ (pipelineError = "getCategoryImageUrls error"
                => \E s \in Subscriptions : catSoFar[s] = CATEGORY_RETRY_COUNT + 1))
    /\ [][\A s \in Subscriptions :
          /\ (CategoryAttemptFailed(s) /\ catSoFar[s] < CATEGORY_RETRY_COUNT)
                => /\ catPhase'[s] = "fetching"
                   /\ selectValue' = selectValue
                   /\ pipelineError' = "none"
          /\ (CategoryAttemptFailed(s) /\ catSoFar[s] = CATEGORY_RETRY_COUNT)
                => /\ pipelineError' = "getCategoryImageUrls error"
                   /\ UNCHANGED <<latestAction, latestCategory, state>>
          /\ CategoryAnswered(s)
                => IF s = CategoryBranch
                   THEN latestCategory' = CategoryData(selectValue, ServerImageUrls(selectValue))
                   ELSE latestAction' = UserActionChangeCategory
       ]_vars

\* one request failed twice and then emitted its category, the other one
\* failed 4 times in a row and ended the pipeline
C7_Witness ==
    /\ catSoFar[CategoryBranch] = 2
    /\ latestCategory = CategoryData(selectValue, ServerImageUrls(selectValue))
    /\ catSoFar[ActionBranch] = 4
    /\ pipelineError = "getCategoryImageUrls error"

\* C8: with retry(2), the preload of one accepted state makes at most 3
\* attempts; an attempt can always be ended by its timeout and then counts as
\* failed; the locator is delivered exactly by an attempt that emits before
\* its timeout, and the fallback exactly by the third failure.
C8_FinitePreloadRetry ==
    /\ [](/\ PRELOAD_RETRY_COUNT + 1 = 3
          /\ preload.soFar <= PRELOAD_RETRY_COUNT + 1
          /\ (Pending(preload) => preload.soFar <= PRELOAD_RETRY_COUNT)
          /\ (preload.phase = "loaded" => preload.soFar <= PRELOAD_RETRY_COUNT)
          /\ (preload.phase = "fallback" <=> preload.soFar = PRELOAD_RETRY_COUNT + 1)
          /\ (alive /\ Pending(preload) => ENABLED PreloadTimeout))
    /\ [][
          /\ (PresenterUpdate /\ preload'.phase = "loaded")
                => /\ preload.phase = "delay"
                   /\ preload'.soFar = preload.soFar
                   /\ imgSrc' = preload.url
          /\ (PresenterUpdate /\ preload'.phase = "fallback")
                => /\ PreloadAttemptFailed
                   /\ preload.soFar = PRELOAD_RETRY_COUNT
                   /\ imgSrc' = FALLBACK_IMAGE_URL
          /\ (PreloadAttemptFailed /\ preload.soFar < PRELOAD_RETRY_COUNT)
                => /\ preload'.phase = "loading"
                   /\ UNCHANGED dom
          /\ (PreloadAttemptFailed /\ preload.soFar = PRELOAD_RETRY_COUNT)
                => preload'.phase = "fallback"
       ]_vars

\* the third attempt, after two failures, delivered the locator
C8_Witness ==
    /\ preload.phase = "loaded"
    /\ preload.soFar = PRELOAD_RETRY_COUNT
    /\ imgSrc = preload.url
    /\ imgSrc # FALLBACK_IMAGE_URL

\* C9: a failing preload is no error of the pipeline: a failure or timeout
\* of an attempt leaves the pipeline and its subscriptions as they are, the
\* locator is presented when a retry succeeds, and the fallback is presented
\* by the apply tap like any result.
C9_PreloadFailureIsNoError ==
    /\ [](pipelineError \in {"none", "getCategoryImageUrls error", "No image urls loaded"})
    /\ [][Pending(preload) /\ preload'.phase = "unsubscribed"
            => \E s \in Subscriptions : catPhase[s] = "fetching"]_vars
    /\ [][PreloadAttemptFailed
            => /\ pipelineError' = "none"
               /\ UNCHANGED <<catPhase, catSoFar, latestAction, latestCategory, state>>]_vars
    /\ [][PresenterUpdate
            => /\ pipelineError' = "none"
               /\ imgSrc' = IF preload'.phase = "fallback" THEN FALLBACK_IMAGE_URL ELSE preload.url
               /\ imgAlt' = <<preload.categoryData.name, preload.index>>
               /\ loadingVisibility' = "hidden"]_vars

\* all attempts failed: the fallback is on display and the pipeline is live
C9_Witness ==
    /\ preload.phase = "fallback"
    /\ alive
    /\ imgSrc = FALLBACK_IMAGE_URL
    /\ loadingVisibility = "hidden"
    /\ imgAlt = <<state.categoryData.name, state.index>>

\* C10: a request of an identifier whose cache entry is a non-empty list
\* emits that list and does not invoke CategorySource.
C10_CachedCategoryIsNotFetched ==
    [][(selectValue' # selectValue /\ cache[selectValue'] \notin {NoEntry, <<>>})
        => /\ \A s \in Subscriptions : catPhase'[s] # "fetching"
           /\ latestCategory' = CategoryData(selectValue', cache[selectValue'])]_vars

\* the fetch() of an unsubscribed request settled
StaleFetchSettled == staleFetches' # staleFetches /\ staleFetches' \subseteq staleFetches

\* C11: a selector change supersedes the request in flight: every category
\* emitted to the reducer is the list of the identifier the selector holds at
\* that moment, emitted by a request of that identifier, and the fetch of a
\* superseded request that settles later, before or after the new one, emits
\* nothing and changes nothing but the cache.
C11_NewIdentifierSupersedes ==
    /\ [][latestCategory' # latestCategory
            => /\ latestCategory' = CategoryData(selectValue, ServerImageUrls(selectValue))
               /\ CategoryAnswered(CategoryBranch)
               /\ selectValue' = selectValue]_vars
    /\ [][StaleFetchSettled
            => UNCHANGED <<selectValue, catPhase, catSoFar, latestAction, latestCategory,
                           state, preload, staleTimers, dom, pipelineError>>]_vars

\* the list of the new identifier was emitted and reduced while the fetch of
\* the superseded one, which never emitted, is still in flight
C11_Witness ==
    \E superseded \in staleFetches :
        /\ superseded # selectValue
        /\ cache[superseded] = NoEntry
        /\ latestCategory = CategoryData(selectValue, ServerImageUrls(selectValue))
        /\ state.categoryData = latestCategory
        /\ latestAction = UserActionChangeCategory

\* C12: an answer with an empty list counts as a failed attempt of its
\* request: no empty category reaches the reducer, and the 'no images' error
\* is surfaced only by a request that has used up its retries.
C12_EmptyListIsRetried ==
    /\ [](latestCategory # Absent => Len(latestCategory.imageUrls) > 0)
    /\ [][(alive /\ pipelineError' = "No image urls loaded")
            => \E s \in Subscriptions :
                    /\ catPhase[s] = "fetching"
                    /\ catSoFar[s] = CATEGORY_RETRY_COUNT]_vars

\* C13: an error surfaced by the pipeline ends the current transition only:
\* in every state after it, Next, Previous and a change of the selector are
\* still taken by the pipeline and reduced.
C13_ErrorIsFatalToTransitionOnly ==
    pipelineError # "none"
        => /\ \A a \in {UserActionNext, UserActionPrevious} : ENABLED Navigate(a)
           /\ \E c \in Categories : ENABLED SelectCategory(c)

\* C14: when the pipeline surfaces an error the image on display becomes the
\* fallback, and it stays the fallback in every later state: the image is
\* never left blank as the loading tap set it, and no Presenter update
\* follows an error.
C14_FallbackShownAfterError ==
    /\ [](pipelineError # "none" => imgSrc = FALLBACK_IMAGE_URL /\ imgSrc # Blank)
    /\ [][(pipelineError = "none" /\ pipelineError' # "none") => imgSrc' = FALLBACK_IMAGE_URL]_vars
    /\ [][pipelineError # "none" => UNCHANGED <<dom, pipelineError>>]_vars

\* the error came while the image of an accepted state was being resolved
\* and the image was blank: the fallback is on display
C14_Witness ==
    /\ pipelineError # "none"
    /\ preload.phase = "unsubscribed"
    /\ counterText = <<preload.index, Len(preload.categoryData.imageUrls) - 1>>
    /\ imgAlt # <<preload.categoryData.name, preload.index>>
    /\ imgSrc = FALLBACK_IMAGE_URL

\* the selector has changed and the ChangeCategory of that change is still
\* to come: a ChangeCategory was emitted before, so the request that the
\* subscription inside userActionCode$ has in flight was started by a change
\* of the selector after it
ChangeCategoryOwed ==
    /\ latestAction = UserActionChangeCategory
    /\ catPhase[ActionBranch] = "fetching"

\* C15: every change of the selector yields its own ChangeCategory, also
\* when another change follows before its fetch resolves: the ChangeCategory
\* that is owed for a change is not lost to the next change.
C15_EverySelectorChangeYieldsChangeCategory ==
    [][(ChangeCategoryOwed /\ selectValue' # selectValue) => CategoryAnswered(ActionBranch)]_vars

\* userActionCode$ emitted actionCode once: combineLatest has it as its
\* latest action and, when it has a category, scan reduced the pair
EmittedOnce(actionCode) ==
    /\ latestAction' = actionCode
    /\ latestCategory' = latestCategory
    /\ latestCategory # Absent => state' = reducer(state, actionCode, latestCategory)

\* C16: a left or right arrow key released on the selector yields no action
\* and changes nothing, the index included; released on any other element
\* it yields exactly one Previous (left) or Next (right), and so does each
\* click on the previous or the next button.
C16_KeysOnSelectorAreIgnored ==
    [][/\ \A code \in KeyCodes :
            lastEvent' = KeyUpEvent(code, categorySelectElement)
                => UNCHANGED <<latestAction, latestCategory, state, preload, staleTimers,
                               dom, catPhase, catSoFar, selectValue, pipelineError>>
       /\ \A target \in Targets \ {categorySelectElement} :
            /\ lastEvent' = KeyUpEvent(KeyCodesLeft, target) => EmittedOnce(UserActionPrevious)
            /\ lastEvent' = KeyUpEvent(KeyCodesRight, target) => EmittedOnce(UserActionNext)
       /\ lastEvent' = ClickEvent(backButtonElement) => EmittedOnce(UserActionPrevious)
       /\ lastEvent' = ClickEvent(nextButtonElement) => EmittedOnce(UserActionNext)
      ]_vars

\* the right arrow was released on the selector while an image before the
\* last one of the category was on display, after a Previous: no Next
\* came of it and the index is as it was
C16_Witness ==
    /\ lastEvent = KeyUpEvent(KeyCodesRight, categorySelectElement)
    /\ latestAction = UserActionPrevious
    /\ preload.phase = "loaded"
    /\ state.index < Len(state.categoryData.imageUrls) - 1
    /\ imgAlt = <<state.categoryData.name, state.index>>

\* C17: when a category with no locators has reached the reducer, the index
\* is 0 after every transition on it, never negative, and no preload is
\* started for the undefined locator of an empty list.
C17_EmptyCategoryYieldsIndexZero ==
    /\ state.index >= 0
    /\ (state.categoryData # Absent /\ Len(state.categoryData.imageUrls) = 0) => state.index = 0
    /\ preload.phase # "none" => preload.url # Undefined

\* the filter passed a new state: the loading tap ran and switchMap
\* subscribed to the preload of that state
StateAccepted == preload'.phase = "loading" /\ preload'.soFar = 0 /\ preload' # preload

\* C18: the loading indicator is visible exactly while the image of the
\* latest accepted state is being resolved: accepting a state shows it,
\* blanks the image and sets the counter to the new index; presenting the
\* locator or the fallback hides it; and while it is hidden the image and
\* its alt text are those of the index and category of the counter.
C18_LoadingIndicatorTracksResolution ==
    /\ [](loadingVisibility = "visible" <=> Pending(preload))
    /\ [](loadingVisibility = "hidden"
            => /\ imgAlt = <<state.categoryData.name, state.index>>
               /\ counterText = <<state.index, Len(state.categoryData.imageUrls) - 1>>
               /\ imgSrc \in {ImageUrlAt(state.categoryData.imageUrls, state.index),
                               FALLBACK_IMAGE_URL})
    /\ [][StateAccepted
            => /\ loadingVisibility' = "visible"
               /\ imgSrc' = Blank
               /\ counterText' = <<state'.index, Len(state'.categoryData.imageUrls) - 1>>]_vars
    /\ [][PresenterUpdate => loadingVisibility' = "hidden"]_vars

\* the running attempt was abandoned: it failed or timed out, a newer state
\* was accepted, or the pipeline ended
AttemptAbandoned ==
    /\ Pending(preload)
    /\ \/ PreloadAttemptFailed
       \/ StateAccepted
       \/ preload'.phase = "unsubscribed"

\* C19: an abandoned attempt leaves nothing behind but the timer of its
\* delayed success, if that was scheduled; when that timer runs, nothing
\* happens: no Presenter update, no change of the running attempt. A locator
\* is presented only by the running attempt, when its own delay has elapsed.
C19_AbandonedAttemptHasNoEffect ==
    /\ [](staleTimers \in 0..MaxStaleTimers)
    /\ [][AttemptAbandoned
            => staleTimers' = IF preload.phase = "delay" THEN staleTimers + 1 ELSE staleTimers]_vars
    /\ [][staleTimers' < staleTimers
            => UNCHANGED <<preload, dom, state, latestAction, latestCategory, catPhase,
                           catSoFar, pipelineError>>]_vars
    /\ [][(PresenterUpdate /\ preload'.phase = "loaded")
            => /\ preload.phase = "delay"
               /\ staleTimers' = staleTimers]_vars

\* the attempt whose image had loaded was ended by the timeout with its
\* delayed success still scheduled, and the next attempt is waiting for the
\* load event
C19_Witness ==
    /\ staleTimers > 0
    /\ preload.phase = "loading"
    /\ preload.soFar > 0
    /\ loadingVisibility = "visible"
    /\ imgSrc = Blank

\* the reference transition of the view state
clamp(x, low, high) == IF x < low THEN low ELSE IF x > high THEN high ELSE x

ReferenceTransition(S, a, c) ==
    LET index == IF a = UserActionChangeCategory
                 THEN 0
                 ELSE clamp(S.index + (IF a = UserActionNext THEN 1 ELSE -1),
                            0, Len(c.imageUrls) - 1)
    IN  [index |-> index,
         categoryData |-> c,
         indexChanged |-> index # S.index,
         categoryChanged |-> (S.categoryData = Absent \/ c.name # S.categoryData.name)]

\* combineLatest emitted a pair and scan reduced it
Reduced ==
    /\ latestAction' # NoAction
    /\ latestCategory' # Absent
    /\ <<latestAction, latestCategory, state>>' # <<latestAction, latestCategory, state>>

\* C20: for every previous state, the seed included, every action and every
\* non-empty category, the state that scan produces is the reference
\* transition of the previous state, the action and the category.
C20_ReducerMatchesReference ==
    /\ [](\A a \in UserAction, c \in Categories :
            Len(ServerImageUrls(c)) > 0
                => reducer(state, a, CategoryData(c, ServerImageUrls(c)))
                    = ReferenceTransition(state, a, CategoryData(c, ServerImageUrls(c))))
    /\ [][(Reduced /\ Len(latestCategory'.imageUrls) > 0)
            => state' = ReferenceTransition(state, latestAction', latestCategory')]_vars

\* Previous was the latest action when the first category arrived: the seed
\* was reduced to index 0 with indexChanged false and categoryChanged true,
\* and the state was accepted
C20_Witness ==
    /\ latestAction = UserActionPrevious
    /\ state.index = 0
    /\ ~state.indexChanged
    /\ state.categoryChanged
    /\ preload.phase = "loading"
    /\ imgAlt = <<>>

\* userActionCode$ emitted Next or Previous, and nothing else was emitted
NavigationStep ==
    /\ latestAction' \in {UserActionNext, UserActionPrevious}
    /\ latestCategory' = latestCategory
    /\ catPhase' = catPhase
    /\ navSinceChange'

\* the selector has changed since the start: the list of another identifier
\* than the one it holds was fetched
SelectorHasChanged == \E c \in Categories : c # selectValue /\ cache[c] # NoEntry

\* C21: once the category the selector holds is the category of the view
\* state, only Next and Previous change the index until the selector changes
\* again: the ChangeCategory of the same selection, arriving later, does not
\* take back a Next or Previous made in between.
C21_LateChangeCategoryKeepsIndex ==
    [][(/\ SelectorHasChanged
        /\ state.categoryData.name = selectValue
        /\ selectValue' = selectValue
        /\ state'.index # state.index)
        => NavigationStep]_vars

\* C22: a selection has one request sequence: when its request is
\* answered, the ChangeCategory and the category of the selection are both
\* delivered and no request of it stays in flight; and a selection whose
\* request was answered cannot fail any more.
C22_OneRequestSequencePerSelection ==
    /\ [][(\E s \in Subscriptions : CategoryAnswered(s))
            => \A t \in Subscriptions : catPhase'[t] # "fetching"]_vars
    /\ [][(alive /\ pipelineError' = "getCategoryImageUrls error")
            => \A t \in Subscriptions : catPhase[t] = "fetching"]_vars

\* C23: whatever Next or Previous arrived before the initial category
\* resolved, the state reduced when it resolves has index 0, and the first
\* Presenter update after start-up (the image had no alt text yet) is for
\* index 0.
C23_FirstUpdateIsIndexZero ==
    /\ [][(latestCategory = Absent /\ latestCategory' # Absent)
            => state'.index = START_INDEX]_vars
    /\ [][(PresenterUpdate /\ imgAlt = <<>>) => preload'.index = START_INDEX]_vars

====
